---- MODULE Spec2Model ----
(***************************************************************************)
(* Model of the statistical core of PET's ensemble optimizer:              *)
(*   - LineSearch.calc_update         (popt/update_schemes/linesearch.py)  *)
(*   - GaussianEnsemble._gen_state_ensemble, calc_ensemble_weights,        *)
(*     _bias_factors, _bias_correction (popt/loop/ensemble_gaussian.py)    *)
(* Real numbers are modelled exactly: integers, or rationals kept as a     *)
(* numerator over a positive denominator.                                  *)
(***************************************************************************)
EXTENDS Integers, Sequences, FiniteSets, TLC

VARIABLES
    \* ---- LineSearch (linesearch.py) ----
    ls_pc,            \* position of the controller: INIT, SEARCHING, ACCEPTED, FAILED
    mean_state,       \* self.mean_state, a point <<x1, x2>>
    cov,              \* self.cov, a 2x2 rational matrix [m |-> <<a,b,c,d>>, den |-> n]
    obj_func_values,  \* self.obj_func_values (its mean)
    alpha,            \* self.alpha
    iteration,        \* self.iteration
    pk_from_ls,       \* self.pk_from_ls: a gradient record, some = FALSE for None
    iter_resamp,      \* the iter_resamp argument of the running (recursive) call
    success,          \* the value calc_update returns
    ls_cfg,           \* options: iter_resamp_max, shrink_factor, normalize
    jac_at,           \* where the most recent call of self.jac was made (<<>>: never)
    ls_obs,           \* observations of the running call: counters, the values at its
                      \* entry (after an accepted step: the values it left)
    \* ---- GaussianEnsemble._gen_state_ensemble ----
    gen_cfg,          \* self.ne, self.lb, self.ub, self.transform
    state,            \* self.state: the mean of every state variable
    state_en,         \* the returned ensemble, per state variable (<<>>: none yet)
    gen_obs,          \* the recentred ensemble before the clip
    \* ---- GaussianEnsemble.calc_ensemble_weights ----
    smc_cfg,          \* keys_en['multilevel'] en_size (or [num_samples]), survival factor
    smc_pc,           \* idle, levels (inside the loop over levels), returned, raised
    particles,        \* self.particles: per level, the members held (one per column)
    particle_values,  \* self.particle_values: per level, the objective values held
    resample_index,   \* self.resample_index: <<>> for None, else per level an index
    smc_loc,          \* locals of the running call
    smc_obs,          \* observations: calls made, the state the call started from
    \* ---- GaussianEnsemble: bias correction ----
    bias_file,        \* self.bias_file is not None
    bias_factors,     \* self.bias_factors: <<>> for None, else one ratio per member
    bias_points,      \* self.bias_points: <<>> for None, else the ensemble kept
    state_func_values,\* self.state_func_values, a ratio <<numerator, denominator>>
    bias_obs          \* observations: calls, rescalings, corrections returned

lsvars == <<ls_pc, mean_state, cov, obj_func_values, alpha, iteration, pk_from_ls,
            iter_resamp, success, ls_cfg, jac_at, ls_obs>>

genvars == <<gen_cfg, state, state_en, gen_obs>>

smcvars == <<smc_cfg, smc_pc, particles, particle_values, resample_index, smc_loc,
             smc_obs>>

biasvars == <<bias_file, bias_factors, bias_points, state_func_values, bias_obs>>

vars == <<lsvars, genvars, smcvars, biasvars>>

-----------------------------------------------------------------------------
(* Bounds of the model *)

\* calls of calc_update made by the outer loop
MaxCalls == 2
\* largest value of the option 'resample' (iter_resamp_max)
MaxResamp == 2
\* the box bounds of the controls are [0, XMax] in every coordinate
XMax == 1
\* largest ensemble size self.ne of _gen_state_ensemble
MaxNe == 3
\* calls of calc_ensemble_weights made by the optimizer
MaxSmcCalls == 2
\* calls of calc_update in the runs that follow the Hessian's ensemble
MaxHessCalls == 3
\* calls of gradient and calc_ensemble_weights made with the bias correction
MaxBiasCalls == 3

-----------------------------------------------------------------------------
(* Helpers: 2-vectors, 2x2 matrices, rationals *)

Abs(x) == IF x < 0 THEN -x ELSE x
Max2(x, y) == IF x >= y THEN x ELSE y
Min2(x, y) == IF x <= y THEN x ELSE y

\* numpy.clip(x, lo, hi)
Clip(x, lo, hi) == Min2(Max2(x, lo), hi)

\* la.norm(v, np.inf) of a vector
VecInfNorm(v) == Max2(Abs(v[1]), Abs(v[2]))

\* la.norm(H, np.inf) of a matrix <<a,b,c,d>> = [[a,b],[c,d]]: the largest row sum
MatInfNorm(h) == Max2(Abs(h[1]) + Abs(h[2]), Abs(h[3]) + Abs(h[4]))

\* ot.clip_state(x, bounds): elementwise clip of a point to the box bounds
ClipState(x) == <<Clip(x[1], 0, XMax), Clip(x[2], 0, XMax)>>

\* a symmetric positive-semi-definite 2x2 rational matrix (den > 0)
IsSymPSD(c) ==
    /\ c.den > 0
    /\ c.m[2] = c.m[3]
    /\ c.m[1] >= 0
    /\ c.m[4] >= 0
    /\ c.m[1] * c.m[4] - c.m[2] * c.m[3] >= 0

\* equality of two rational matrices
CovEq(c1, c2) == \A i \in 1..4 : c1.m[i] * c2.den = c2.m[i] * c1.den

\* the matrices the projection onto the SPSD cone may return for an input outside it
PsdTargets ==
    { [m |-> <<0, 0, 0, 0>>, den |-> 1],
      [m |-> <<1, 1, 1, 1>>, den |-> 1] }

\* ot.get_sym_pos_semidef(a): a itself when it is in the cone, else a matrix of the cone
GetSymPosSemidef(a) == IF IsSymPSD(a) THEN {a} ELSE PsdTargets

-----------------------------------------------------------------------------
(* LineSearch: configuration and external closures *)

\* the gradient record standing for None
NoGrad == [some |-> FALSE, at |-> <<>>, g |-> <<0, 0>>]

\* values the gradient closure self.jac can return
GradVals == { <<1, 0>>, <<0, -2>> }

\* values the hessian closure self.hess can return (the last one is not symmetric)
HessVals == { <<0, 1, 1, 0>>, <<0, 1, 0, -1>> }

\* mean objective values self.fun can return
FunVals == { 0, 1 }

\* step sizes scipy's line_search can return
StepVals == { 1, 2 }

\* the option alpha_cov, as <<numerator, denominator>>
AlphaCov == <<1, 2>>

\* values of the option shrink_factor, as <<numerator, denominator>>, all >= 0
ShrinkFactors == { <<0, 1>>, <<1, 2>> }

\* initial covariances args[0]: symmetric positive-semi-definite
InitCovs ==
    { [m |-> <<2, 1, 1, 1>>, den |-> 1],
      [m |-> <<1, 1, 1, 1>>, den |-> 1] }

\* _jac(x): self.jac at the clipped point; every value the closure can return
Jac(x) == { [some |-> TRUE, at |-> ClipState(x), g |-> g] : g \in GradVals }

\* the search direction -pk/pk_norm handed to line_search
Direction(pk, normalize) ==
    LET pk_norm == IF normalize THEN VecInfNorm(pk) ELSE 1
    IN  << (0 - pk[1]) \div pk_norm, (0 - pk[2]) \div pk_norm >>

\* the trial point xk + a * pk of the line search
Trial(xk, dir, a) == << xk[1] + a * dir[1], xk[2] + a * dir[2] >>

\* scipy.optimize.line_search(f, myfprime, xk, pk, ...): what it can return.
\*   has_step : alpha is a float (TRUE) or None (FALSE)
\*   slope    : the gradient of its last evaluation at the accepted point, or None
\*              when the search stops without convergence
\*   last_jac : where its last call of myfprime was made (<<>>: it made none)
LineSearchOutcomes(xk, dir) ==
    LET converged ==
            { [has_step |-> TRUE, step |-> a, fnew |-> f, slope |-> s,
               last_jac |-> s.at] :
              a \in StepVals, f \in FunVals,
              s \in UNION { Jac(Trial(xk, dir, b)) : b \in StepVals } }
        stopped ==
            { [has_step |-> TRUE, step |-> a, fnew |-> f, slope |-> NoGrad,
               last_jac |-> ClipState(Trial(xk, dir, b))] :
              a \in StepVals, f \in FunVals, b \in StepVals }
        failed ==
            { [has_step |-> FALSE, step |-> 0, fnew |-> 0, slope |-> NoGrad,
               last_jac |-> j] :
              j \in {<<>>} \cup { ClipState(Trial(xk, dir, b)) : b \in StepVals } }
    IN  { o \in converged : o.slope.at = ClipState(Trial(xk, dir, o.step)) }
        \cup stopped \cup failed

RECURSIVE Gcd(_, _)
Gcd(x, y) == IF y = 0 THEN x ELSE Gcd(y, x % y)

\* a rational matrix in lowest terms (one value, one representation)
Reduce(c) ==
    LET g == Gcd(Gcd(Gcd(Abs(c.m[1]), Abs(c.m[2])), Gcd(Abs(c.m[3]), Abs(c.m[4]))), c.den)
    IN  [m |-> <<c.m[1] \div g, c.m[2] \div g, c.m[3] \div g, c.m[4] \div g>>,
         den |-> c.den \div g]

\* hessian /= np.maximum(la.norm(hessian, np.inf), 1e-12): the divisor, as an integer
\* (a zero hessian divided by 1e-12 stays zero: divisor 1)
HessDivisor(h, normalize) ==
    IF normalize /\ MatInfNorm(h) > 0 THEN MatInfNorm(h) ELSE 1

\* self.cov - self.alpha_cov * hessian, with hessian = h / n
CovMinusHess(c, h, n) ==
    Reduce([m |-> << c.m[1] * AlphaCov[2] * n - AlphaCov[1] * c.den * h[1],
                     c.m[2] * AlphaCov[2] * n - AlphaCov[1] * c.den * h[2],
                     c.m[3] * AlphaCov[2] * n - AlphaCov[1] * c.den * h[3],
                     c.m[4] * AlphaCov[2] * n - AlphaCov[1] * c.den * h[4] >>,
            den |-> c.den * AlphaCov[2] * n])

\* (a faulty variant: the update without the projection onto the cone)
CovUpdateNoProjection(c, h, n) == {CovMinusHess(c, h, n)}

\* the covariance update of an accepted step: every value self.cov can take
CovUpdate(c, h, n) == UNION { GetSymPosSemidef(a) : a \in {CovMinusHess(c, h, n)} }

\* (a faulty variant: the covariance is not shrunk)
ShrinkCovForgotten(c, sf) == c

\* self.cov * self.shrink_factor
ShrinkCov(c, sf) ==
    Reduce([m |-> << c.m[1] * sf[1], c.m[2] * sf[1], c.m[3] * sf[1], c.m[4] * sf[1] >>,
            den |-> c.den * sf[2]])

\* (a faulty variant: the bound check is off by one)
RetriesRemainOffByOne(ir, ir_max) == ir <= ir_max

\* if iter_resamp < self.iter_resamp_max
RetriesRemain(ir, ir_max) == ir < ir_max

\* if self.pk_from_ls is None: pk = _jac(self.mean_state) else: pk = self.pk_from_ls
CurrentGradient(carried, x) == IF carried.some THEN {carried} ELSE Jac(x)

\* (a faulty variant: the carried-over gradient survives the shrink)
KeptGradient == pk_from_ls

\* self.pk_from_ls after a shrink: None
DiscardedGradient == NoGrad

\* where self.jac was last called, after one search attempt
JacAtAfter(pk0, o) ==
    IF o.last_jac # <<>> THEN o.last_jac
    ELSE IF pk_from_ls.some THEN jac_at ELSE pk0.at

-----------------------------------------------------------------------------
(* GaussianEnsemble._gen_state_ensemble                                    *)
(* An ensemble of ne members is kept exactly: every element is stored as   *)
(* its value times ne (the sample mean divides by ne).                     *)

RECURSIVE SeqSum(_)
SeqSum(q) == IF q = <<>> THEN 0 ELSE q[1] + SeqSum(Tail(q))

\* the state variables, in the order of self.state.keys()
StateKeys == << "x", "y" >>

\* perturbations np.random.multivariate_normal adds to the mean
NoiseVals == { -1, 0, 2 }

\* the limits of the state variables when they are configured: [0, 1] and [0, 2]
ConfiguredLb == [ i \in 1..Len(StateKeys) |-> 0 ]
ConfiguredUb == [ i \in 1..Len(StateKeys) |-> i ]

\* the means a state variable can have
MeanVals == { 0, 1 }

\* np.random.multivariate_normal(mean, cov, self.ne).transpose(): every draw
Draws(mean, ne) == [ 1..ne -> { mean + e : e \in NoiseVals } ]

\* (a faulty variant: the sample mean is not subtracted)
ShiftedNotRecentred(mean, temp, ne) == [ j \in 1..ne |-> ne * temp[j] ]

\* shifted_ensemble = mean + temp_state_en - mean(temp_state_en, 1), times ne
ShiftedEnsemble(mean, temp, ne) ==
    [ j \in 1..ne |-> ne * mean + ne * temp[j] - SeqSum(temp) ]

\* if self.lb and self.ub: both lists are non-empty
BoundsGiven(cfg) == cfg.lb # <<>> /\ cfg.ub # <<>>

\* (a faulty variant: the transformed space is clipped whether or not bounds are given,
\* and the bounds of the first variable are used for every variable)
ClippedEnsembleFirstBounds(shifted, i, cfg) ==
    IF cfg.transform
    THEN [ j \in 1..cfg.ne |-> Clip(shifted[j], 0, cfg.ne) ]
    ELSE IF BoundsGiven(cfg)
         THEN [ j \in 1..cfg.ne |->
                  Clip(shifted[j], cfg.ne * cfg.lb[1], cfg.ne * cfg.ub[1]) ]
         ELSE shifted

\* lines 388-392: np.clip to [0, 1] or to [lb[i], ub[i]], values times ne
ClippedEnsemble(shifted, i, cfg) ==
    IF BoundsGiven(cfg)
    THEN IF cfg.transform
         THEN [ j \in 1..cfg.ne |-> Clip(shifted[j], 0, cfg.ne) ]
         ELSE [ j \in 1..cfg.ne |->
                  Clip(shifted[j], cfg.ne * cfg.lb[i], cfg.ne * cfg.ub[i]) ]
    ELSE shifted

GenInit ==
    /\ gen_cfg \in { [ ne |-> n, lb |-> b[1], ub |-> b[2], transform |-> t ] :
                      n \in 2..MaxNe,
                      b \in { << <<>>, <<>> >>, << ConfiguredLb, ConfiguredUb >> },
                      t \in BOOLEAN }
    /\ state \in [ 1..Len(StateKeys) -> MeanVals ]
    /\ state_en = <<>>
    /\ gen_obs = <<>>

\* the ensemble part of the state while another component is explored
GenIdle ==
    /\ gen_cfg = [ ne |-> 2, lb |-> <<>>, ub |-> <<>>, transform |-> FALSE ]
    /\ state = [ i \in 1..Len(StateKeys) |-> 0 ]
    /\ state_en = <<>>
    /\ gen_obs = <<>>

\* _gen_state_ensemble(): returns the ensemble, leaves self.state to the caller
GenStateEnsemble ==
    /\ state_en = <<>>
    /\ \E temp \in [ 1..Len(StateKeys) -> Draws(0, gen_cfg.ne) ] :
         LET shifted == [ i \in 1..Len(StateKeys) |->
                            ShiftedEnsemble(state[i],
                                [ j \in 1..gen_cfg.ne |-> state[i] + temp[i][j] ],
                                gen_cfg.ne) ]
         IN  /\ state_en' = [ i \in 1..Len(StateKeys) |->
                                ClippedEnsemble(shifted[i], i, gen_cfg) ]
             /\ gen_obs' = shifted
    /\ UNCHANGED <<gen_cfg, state>>

\* ot.update_optim_state(x, self.state, keys): the next mean the caller sets
UpdateOptimState ==
    /\ state_en # <<>>
    /\ \E x \in [ 1..Len(StateKeys) -> MeanVals ] : state' = x
    /\ state_en' = <<>>
    /\ gen_obs' = <<>>
    /\ UNCHANGED gen_cfg

-----------------------------------------------------------------------------
(* GaussianEnsemble.calc_ensemble_weights                                  *)
(* A member of the ensemble (a column of state_ens) is a number; levels    *)
(* and columns are numbered from 1 here and from 0 in the code.            *)

\* configurations: level sizes and whether 'multilevel' is in keys_en
SmcConfigs ==
    { [en_size |-> <<3>>, multilevel |-> FALSE],
      [en_size |-> <<1, 1, 1>>, multilevel |-> TRUE],
      [en_size |-> <<2, 2, 1>>, multilevel |-> TRUE] }

\* survival factors args[2], as <<numerator, denominator>>
SurvivalFactors == { <<1, 2>>, <<2, 7>> }

\* inflation factors args[0]
InflationFactors == { 0, 1, 20 }

\* the members _gen_state_ensemble can draw
MemberVals == { 0, 1 }

\* the objective value self.function evaluates for a member
ObjOf(x) == 3 - x

\* int(np.round(n * f)) for f = sf[1]/sf[2] >= 0: halves go to the even neighbour
RoundTimes(n, sf) ==
    LET p == n * sf[1]
        q == sf[2]
        lo == p \div q
        r == p % q
    IN  IF 2 * r < q THEN lo
        ELSE IF 2 * r > q THEN lo + 1
        ELSE IF lo % 2 = 0 THEN lo ELSE lo + 1

\* self.num_samples: the total of the level sizes
NumSamples(cfg) == SeqSum(cfg.en_size)

\* L = len(self.ens_func_values)
NumLevels(cfg) == IF cfg.multilevel THEN Len(cfg.en_size) ELSE 1

\* (a faulty variant: the last level rounds its own size like the others)
MlNeNewNoRemainder(cfg, l, new_total) == RoundTimes(cfg.en_size[l], cfg.sf)

\* lines 332-335: ml_ne_new of level l, new_total being ml_ne_new_total
MlNeNew(cfg, l, new_total) ==
    IF NumLevels(cfg) > 1 /\ l = NumLevels(cfg)
    THEN RoundTimes(NumSamples(cfg), cfg.sf) - new_total
    ELSE RoundTimes(cfg.en_size[l], cfg.sf)

\* line 337: ml_ne_surv
MlNeSurv(ml_ne, ml_ne_new) == ml_ne - ml_ne_new

\* a Python slice bound i on a sequence of n elements
PyBound(i, n) == IF i < 0 THEN Max2(i + n, 0) ELSE Min2(i, n)

\* q[a:b] (a, b counted from 0)
Slice(q, a, b) ==
    LET lo == PyBound(a, Len(q))
        hi == PyBound(b, Len(q))
    IN  [ k \in 1..Max2(hi - lo, 0) |-> q[lo + k] ]

\* q[idx] for an index array idx (entries counted from 1 here)
Gather(q, idx) == [ k \in 1..Len(idx) |-> q[idx[k]] ]

\* numpy accepts q[a:b] = rhs when rhs has the length of the slice, or length 1
AssignOk(q, a, b, rhs) ==
    \/ Len(rhs) = Len(Slice(q, a, b))
    \/ Len(rhs) = 1

\* q after q[a:b] = rhs
AssignSlice(q, a, b, rhs) ==
    LET lo == PyBound(a, Len(q))
        n == Len(Slice(q, a, b))
    IN  [ k \in 1..Len(q) |->
            IF k > lo /\ k <= lo + n
            THEN IF Len(rhs) = 1 THEN rhs[1] ELSE rhs[k - lo]
            ELSE q[k] ]

\* np.exp(k) in units of 1e-6, rounded down, for k <= 0
ExpTable ==
    << 1000000, 367879, 135335, 49787, 18316, 6737, 2478, 911, 335, 123, 45, 16,
       6, 2 >>
ExpMicro(k) == IF 0 - k < Len(ExpTable) THEN ExpTable[1 - k] ELSE 0

\* the upper clip of the exponent (line 352)
ExponentMax == 10
\* the constant 0.000001 added to every weight (line 354), in units of 1e-6
WeightFloor == 1

\* line 351-352: exp(clip(-(J_i - min J) * inflation_factor, None, 10)), in 1e-6
RawWeight(j, jmin, infl) == ExpMicro(Min2((0 - (j - jmin)) * infl, ExponentMax))

SeqMin(q) == CHOOSE v \in { q[k] : k \in 1..Len(q) } : \A k \in 1..Len(q) : v <= q[k]

\* (a faulty variant: the weights are normalised before the constant is added)
WeightsFloorAfterNormalising(vals, ml_ne, infl) ==
    LET raw == [ i \in 1..ml_ne |-> RawWeight(vals[i], SeqMin(vals), infl) ]
    IN  [ num |-> [ i \in 1..ml_ne |-> raw[i] + WeightFloor ], den |-> SeqSum(raw) ]

\* lines 349-355: the weights of the ml_ne particles of a level: weights[i] is
\* num[i] / den
Weights(vals, ml_ne, infl) ==
    LET raw == [ i \in 1..ml_ne |-> RawWeight(vals[i], SeqMin(vals), infl) ]
        w == [ i \in 1..ml_ne |-> raw[i] + WeightFloor ]
    IN  [ num |-> w, den |-> SeqSum(w) ]

\* np.argmin(q): the first index of the minimum
ArgMin(q) == CHOOSE i \in 1..Len(q) :
                /\ q[i] = SeqMin(q)
                /\ \A k \in 1..(i - 1) : q[k] # q[i]

RECURSIVE RoundedBefore(_, _)
\* the rounded counts of the levels before level l, added up
RoundedBefore(cfg, l) ==
    IF l = 1 THEN 0
    ELSE RoundedBefore(cfg, l - 1) + RoundTimes(cfg.en_size[l - 1], cfg.sf)

\* the sizes of the consecutive blocks of columns self.function evaluates per
\* level: the level sizes on the first call; afterwards the rounded counts, the
\* last level having the columns that are left
BlockSizes(cfg, first) ==
    IF ~cfg.multilevel THEN << IF first THEN NumSamples(cfg)
                               ELSE RoundTimes(NumSamples(cfg), cfg.sf) >>
    ELSE IF first THEN cfg.en_size
    ELSE [ l \in 1..Len(cfg.en_size) |->
             IF l < Len(cfg.en_size) THEN RoundTimes(cfg.en_size[l], cfg.sf)
             ELSE Max2(RoundTimes(NumSamples(cfg), cfg.sf)
                         - RoundedBefore(cfg, l), 0) ]

RECURSIVE BlockStart(_, _)
BlockStart(sizes, l) == IF l = 1 THEN 0 ELSE BlockStart(sizes, l - 1) + sizes[l - 1]

\* self.function(state_ens): self.ens_func_values, per level the objective values
\* of its block of columns
EnsFuncValues(ens, sizes) ==
    [ l \in 1..Len(sizes) |->
        LET blk == Slice(ens, BlockStart(sizes, l), BlockStart(sizes, l) + sizes[l])
        IN  [ k \in 1..Len(blk) |-> ObjOf(blk[k]) ] ]

SmcInit ==
    /\ smc_cfg \in { [en_size |-> c.en_size, multilevel |-> c.multilevel, sf |-> f] :
                      c \in SmcConfigs, f \in SurvivalFactors }
    /\ smc_pc = "idle"
    /\ particles = <<>>
    /\ particle_values = <<>>
    /\ resample_index = <<>>
    /\ smc_loc = <<>>
    /\ smc_obs = [ calls |-> 0, news |-> <<>>, survs |-> <<>>, weights |-> <<>>,
                   prev_particles |-> <<>>, prev_values |-> <<>>,
                   prev_index |-> <<>>, state_ens |-> <<>> ]

SmcIdle ==
    /\ smc_cfg = [en_size |-> <<3>>, multilevel |-> FALSE, sf |-> <<1, 2>>]
    /\ smc_pc = "idle"
    /\ particles = <<>>
    /\ particle_values = <<>>
    /\ resample_index = <<>>
    /\ smc_loc = <<>>
    /\ smc_obs = <<>>

\* the index that stands for None in the list [None]*L
NoIndex == [some |-> FALSE, idx |-> <<>>]

\* lines 284-328: the call up to the loop over the levels
CalcEnsembleWeights ==
    /\ smc_pc \in {"idle", "returned"}
    /\ smc_obs.calls < MaxSmcCalls
    /\ LET first == resample_index = <<>>
           ne == IF first THEN NumSamples(smc_cfg)
                 ELSE RoundTimes(NumSamples(smc_cfg), smc_cfg.sf)
       IN  \E ens \in [ 1..ne -> MemberVals ], infl \in InflationFactors :
             /\ smc_loc' = [ l |-> 1, start_index |-> 0, ml_ne_new_total |-> 0,
                             state_ens |-> ens,
                             ens_func_values |->
                                 EnsFuncValues(ens, BlockSizes(smc_cfg, first)),
                             inflation_factor |-> infl,
                             best_ens |-> 0, best_func |-> 0 ]
             /\ resample_index' = IF first
                                  THEN [ l \in 1..NumLevels(smc_cfg) |-> NoIndex ]
                                  ELSE resample_index
             /\ smc_obs' = [ smc_obs EXCEPT
                               !.calls = @ + 1, !.news = <<>>, !.survs = <<>>,
                               !.weights = <<>>,
                               !.prev_particles = particles,
                               !.prev_values = particle_values,
                               !.prev_index = resample_index,
                               !.state_ens = ens ]
    /\ smc_pc' = "levels"
    /\ UNCHANGED <<smc_cfg, particles, particle_values>>

\* the values of one pass of the loop over the levels (lines 331-346), from the
\* state the pass starts in
LevelPass ==
    LET l == smc_loc.l
        ml_ne == smc_cfg.en_size[l]
        ml_ne_new == MlNeNew(smc_cfg, l, smc_loc.ml_ne_new_total)
        ml_ne_surv == MlNeSurv(ml_ne, ml_ne_new)
        first == ~resample_index[l].some
        start == smc_loc.start_index
        fresh == Slice(smc_loc.state_ens, start, start + ml_ne_new)
        efv == smc_loc.ens_func_values[l]
        \* line 343 and line 345: the gathered survivors
        p_surv == Gather(particles[l], resample_index[l].idx)
        v_surv == Gather(particle_values[l], resample_index[l].idx)
        ok343 == AssignOk(particles[l], 0, ml_ne_surv, p_surv)
        p343 == AssignSlice(particles[l], 0, ml_ne_surv, p_surv)
        ok344 == AssignOk(p343, ml_ne_surv, Len(p343), fresh)
        p344 == AssignSlice(p343, ml_ne_surv, Len(p343), fresh)
        ok345 == AssignOk(particle_values[l], 0, ml_ne_surv, v_surv)
        v345 == AssignSlice(particle_values[l], 0, ml_ne_surv, v_surv)
        ok346 == AssignOk(v345, ml_ne_surv, Len(v345), efv)
        v346 == AssignSlice(v345, ml_ne_surv, Len(v345), efv)
    IN  [ ml_ne |-> ml_ne, ml_ne_new |-> ml_ne_new, ml_ne_surv |-> ml_ne_surv,
          first |-> first,
          \* the persisted population after lines 339-346, as far as they ran
          particles |->
              IF first
              THEN Append(particles, Slice(smc_loc.state_ens, start, start + ml_ne))
              ELSE IF ~ok343 THEN particles
              ELSE IF ~ok344 THEN [ particles EXCEPT ![l] = p343 ]
              ELSE [ particles EXCEPT ![l] = p344 ],
          values |->
              IF first THEN Append(particle_values, efv)
              ELSE IF ~ok343 \/ ~ok344 \/ ~ok345 THEN particle_values
              ELSE IF ~ok346 THEN [ particle_values EXCEPT ![l] = v345 ]
              ELSE [ particle_values EXCEPT ![l] = v346 ],
          stored |-> first \/ (ok343 /\ ok344 /\ ok345 /\ ok346) ]

\* the pass raises: an assignment of lines 343-346 has mismatched shapes, the
\* weights loop reads past the values held, or np.random.choice gets a negative
\* size
PassRaises(p) ==
    \/ ~p.stored
    \/ Len(p.values[smc_loc.l]) < p.ml_ne
    \/ Len(p.particles[smc_loc.l]) # p.ml_ne
    \/ p.ml_ne_surv < 0

\* one pass of the loop over the levels that runs to its end (lines 331-364)
LevelStep ==
    /\ smc_pc = "levels"
    /\ smc_loc.l <= NumLevels(smc_cfg)
    /\ LET p == LevelPass
           l == smc_loc.l
       IN  /\ ~PassRaises(p)
           /\ particles' = p.particles
           /\ particle_values' = p.values
           /\ LET w == Weights(p.values[l], p.ml_ne, smc_loc.inflation_factor)
                  last == l = NumLevels(smc_cfg)
              IN  /\ smc_obs' = [ smc_obs EXCEPT
                                    !.news = Append(@, p.ml_ne_new),
                                    !.survs = Append(@, p.ml_ne_surv),
                                    !.weights = Append(@, [ num |-> w.num,
                                                            den |-> w.den,
                                                            vals |-> p.values[l] ]) ]
                  /\ smc_loc' = [ smc_loc EXCEPT
                                    !.l = @ + 1,
                                    !.start_index = @ + p.ml_ne_new,
                                    !.ml_ne_new_total =
                                        IF NumLevels(smc_cfg) > 1 /\ last
                                        THEN @ ELSE @ + p.ml_ne_new,
                                    !.best_ens =
                                        IF last
                                        THEN p.particles[l][ArgMin(p.values[l])]
                                        ELSE @,
                                    !.best_func =
                                        IF last
                                        THEN p.values[l][ArgMin(p.values[l])]
                                        ELSE @ ]
           \* line 362: np.random.choice(ml_ne, ml_ne_surv, replace=True, p=weights)
           /\ \E idx \in [ 1..p.ml_ne_surv -> 1..p.ml_ne ] :
                 resample_index' = [ resample_index EXCEPT
                                       ![l] = [some |-> TRUE, idx |-> idx] ]
    /\ smc_pc' = "levels"
    /\ UNCHANGED smc_cfg

\* one pass of the loop over the levels that raises an exception
LevelRaise ==
    /\ smc_pc = "levels"
    /\ smc_loc.l <= NumLevels(smc_cfg)
    /\ LET p == LevelPass
       IN  /\ PassRaises(p)
           /\ particles' = p.particles
           /\ particle_values' = p.values
           /\ smc_obs' = [ smc_obs EXCEPT !.news = Append(@, p.ml_ne_new),
                                         !.survs = Append(@, p.ml_ne_surv) ]
    /\ smc_pc' = "raised"
    /\ UNCHANGED <<smc_cfg, resample_index, smc_loc>>

\* lines 366-374: the loop is over, the call returns (sens_matrix, best_ens,
\* best_func); sens_matrix is computed from the weights and is not kept
ReturnWeights ==
    /\ smc_pc = "levels"
    /\ smc_loc.l > NumLevels(smc_cfg)
    /\ smc_pc' = "returned"
    /\ smc_loc' = [ best_ens |-> smc_loc.best_ens, best_func |-> smc_loc.best_func ]
    /\ UNCHANGED <<smc_cfg, particles, particle_values, resample_index, smc_obs>>

-----------------------------------------------------------------------------
(* GaussianEnsemble: the bias correction of gradient and                   *)
(* calc_ensemble_weights. Values are ratios <<numerator, denominator>> in  *)
(* lowest terms with a positive denominator.                               *)

Frac(n, d) == LET g == Gcd(Abs(n), d) IN << n \div g, d \div g >>
FracAdd(a, b) == Frac(a[1] * b[2] + b[1] * a[2], a[2] * b[2])
FracMul(a, b) == Frac(a[1] * b[1], a[2] * b[2])

RECURSIVE FracSum(_)
FracSum(q) == IF q = <<>> THEN <<0, 1>> ELSE FracAdd(q[1], FracSum(Tail(q)))

\* the members of the ensemble of the first call (self.num_samples of them)
BiasMembers == { 1, 2 }

\* the objective values of the members under the simulation file in use
EnsObjVals == { 1, 2 }
\* the objective values of the members under the bias file
BiasObjVals == { 1, 3 }
\* the baseline objective value the optimizer stored before the first call
StateFuncVals == { <<1, 1>>, <<2, 1>> }

\* line 85: np.ones(num_samples) / num_samples
BiasWeights == [ j \in BiasMembers |-> Frac(1, Cardinality(BiasMembers)) ]

\* _bias_correction(state): the weighted sum of the factors, or 1 without factors
BiasCorrection(factors) ==
    IF factors # <<>>
    THEN FracSum([ j \in BiasMembers |-> FracMul(BiasWeights[j], factors[j]) ])
    ELSE <<1, 1>>

\* (a faulty variant: the factors are computed on every call)
FirstIterationAlways(factors) == TRUE

\* line 411: self.bias_factors is None
FirstIteration(factors) == factors = <<>>

\* _bias_factors(obj_func_values, initial_state): the state it leaves, bfv being
\* the objective values under the bias file and ens the ensemble in self.state
BiasFactors(efv, bfv, ens) ==
    IF FirstIteration(bias_factors)
    THEN LET f == [ j \in BiasMembers |-> Frac(bfv[j], efv[j]) ]
         IN  [ factors |-> f, points |-> ens,
               sfv |-> FracMul(state_func_values, BiasCorrection(f)),
               rescaled |-> TRUE ]
    ELSE [ factors |-> bias_factors, points |-> bias_points,
           sfv |-> state_func_values, rescaled |-> FALSE ]

BiasInit ==
    /\ bias_file \in BOOLEAN
    /\ bias_factors = <<>>
    /\ bias_points = <<>>
    /\ state_func_values \in StateFuncVals
    /\ bias_obs = [ calls |-> 0, ops |-> {}, rescales |-> 0, set_to |-> <<>>,
                    returned |-> <<>>, sfv0 |-> state_func_values ]

BiasIdle ==
    /\ bias_file = FALSE
    /\ bias_factors = <<>>
    /\ bias_points = <<>>
    /\ state_func_values = <<1, 1>>
    /\ bias_obs = <<>>

\* what a call does to the bias state; corrects says whether the call goes on
\* to call _bias_correction (gradient, line 180)
BiasCall(op, corrects) ==
    /\ bias_obs.calls < MaxBiasCalls
    /\ \E ens \in [ BiasMembers -> MemberVals ], efv \in [ BiasMembers -> EnsObjVals ],
          bfv \in [ BiasMembers -> BiasObjVals ] :
         IF bias_file
         THEN LET b == BiasFactors(efv, bfv, ens)
              IN  /\ bias_factors' = b.factors
                  /\ bias_points' = b.points
                  /\ state_func_values' = b.sfv
                  /\ bias_obs' = [ bias_obs EXCEPT
                        !.calls = @ + 1,
                        !.ops = @ \cup {op},
                        !.rescales = IF b.rescaled THEN @ + 1 ELSE @,
                        !.set_to = IF b.rescaled THEN BiasCorrection(b.factors) ELSE @,
                        !.returned = IF corrects THEN BiasCorrection(b.factors) ELSE @ ]
         ELSE /\ bias_obs' = [ bias_obs EXCEPT !.calls = @ + 1, !.ops = @ \cup {op} ]
              /\ UNCHANGED <<bias_factors, bias_points, state_func_values>>
    /\ UNCHANGED bias_file

\* gradient: lines 150-153, 164-165 and 179-180
GradientBias == BiasCall("gradient", TRUE)

\* calc_ensemble_weights: lines 292-295 and 315-316
CalcEnsembleWeightsBias == BiasCall("calc_ensemble_weights", FALSE)

-----------------------------------------------------------------------------
(* LineSearch: the controller *)

LSInit ==
    /\ ls_pc = "INIT"
    /\ mean_state = <<1, 1>>
    /\ cov \in InitCovs
    /\ obj_func_values = 1
    /\ alpha = 0
    /\ iteration = 0
    /\ pk_from_ls = NoGrad
    /\ iter_resamp = 0
    /\ success = FALSE
    /\ ls_cfg \in [ iter_resamp_max : 0..MaxResamp,
                    shrink_factor : ShrinkFactors,
                    normalize : BOOLEAN ]
    /\ jac_at = <<>>
    /\ GenIdle
    /\ SmcIdle
    /\ BiasIdle
    /\ ls_obs = [ calls |-> 0, attempts |-> 0, shrinks |-> 0, prev |-> "none",
                  fresh |-> FALSE, fresh_at |-> <<>>, fresh_cov |-> cov,
                  slope_given |-> FALSE, projected |-> FALSE, hess_current |-> TRUE,
                  entry |-> [ mean |-> mean_state, obj |-> obj_func_values,
                              alpha |-> alpha, iteration |-> iteration,
                              cov |-> cov ] ]

\* self.hess() (line 92) takes the ensemble and the objective values the last
\* call of self.jac left (hessian(), lines 233-254): the point that call was made
\* at, when the attempt's gradient is pk0
HessianEnsembleAt(pk0) == IF pk_from_ls.some THEN jac_at ELSE pk0.at

\* what is observed of one search attempt: whether and where it called self.jac
\* before its line search, and with which covariance; whether the ensemble the
\* Hessian takes is that of the attempt's gradient at the current mean state
Observe(pk0) ==
    [ ls_obs EXCEPT !.attempts = @ + 1,
                    !.fresh = ~pk_from_ls.some,
                    !.fresh_at = IF pk_from_ls.some THEN <<>> ELSE pk0.at,
                    !.fresh_cov = cov,
                    !.hess_current = /\ HessianEnsembleAt(pk0) = mean_state
                                     /\ pk0.at = HessianEnsembleAt(pk0) ]

\* the outer loop calls calc_update(): iter_resamp = 0, success = False; it makes
\* at most n calls
CalcUpdateWithin(n) ==
    /\ ls_pc \in {"INIT", "ACCEPTED", "FAILED"}
    /\ ls_obs.calls < n
    /\ ls_pc' = "SEARCHING"
    /\ iter_resamp' = 0
    /\ success' = FALSE
    /\ ls_obs' = [ ls_obs EXCEPT !.calls = @ + 1, !.attempts = 0, !.shrinks = 0,
                                 !.prev = IF ls_pc = "ACCEPTED" THEN "accepted"
                                          ELSE IF ls_pc = "FAILED" THEN "failed"
                                          ELSE "init",
                                 !.entry = [ mean |-> mean_state,
                                             obj |-> obj_func_values,
                                             alpha |-> alpha,
                                             iteration |-> iteration,
                                             cov |-> cov ] ]
    /\ UNCHANGED <<mean_state, cov, obj_func_values, alpha, iteration, pk_from_ls,
                   ls_cfg, jac_at>>
    /\ UNCHANGED <<genvars, smcvars, biasvars>>

\* a search attempt whose line search returns a step size (lines 85-143)
Accepted ==
    /\ ls_pc = "SEARCHING"
    /\ \E pk0 \in CurrentGradient(pk_from_ls, mean_state), h \in HessVals :
         LET dir == Direction(pk0.g, ls_cfg.normalize)
         IN  \E o \in LineSearchOutcomes(mean_state, dir) :
               /\ o.has_step
               /\ mean_state' = ClipState(Trial(mean_state, dir, o.step))
               /\ obj_func_values' = o.fnew
               /\ alpha' = o.step
               /\ pk_from_ls' = o.slope
               /\ cov' \in CovUpdate(cov, h, HessDivisor(h, ls_cfg.normalize))
               /\ jac_at' = JacAtAfter(pk0, o)
               /\ ls_obs' = [ Observe(pk0) EXCEPT
                                !.slope_given = o.slope.some,
                                !.projected =
                                    ~IsSymPSD(CovMinusHess(cov, h,
                                                  HessDivisor(h, ls_cfg.normalize))),
                                !.fresh_cov = cov',
                                !.entry = [ mean |-> mean_state',
                                            obj |-> o.fnew,
                                            alpha |-> o.step,
                                            iteration |-> iteration + 1,
                                            cov |-> cov' ] ]
    /\ success' = TRUE
    /\ iteration' = iteration + 1
    /\ ls_pc' = "ACCEPTED"
    /\ UNCHANGED <<iter_resamp, ls_cfg>>
    /\ UNCHANGED <<genvars, smcvars, biasvars>>

\* a search attempt whose line search returns no step size, retries remaining
\* (lines 85-113, 145-158): shrink and recurse
ShrinkRetry ==
    /\ ls_pc = "SEARCHING"
    /\ RetriesRemain(iter_resamp, ls_cfg.iter_resamp_max)
    /\ \E pk0 \in CurrentGradient(pk_from_ls, mean_state), h \in HessVals :
         LET dir == Direction(pk0.g, ls_cfg.normalize)
         IN  \E o \in LineSearchOutcomes(mean_state, dir) :
               /\ ~o.has_step
               /\ jac_at' = JacAtAfter(pk0, o)
               /\ ls_obs' = [ Observe(pk0) EXCEPT !.shrinks = @ + 1 ]
    /\ iter_resamp' = iter_resamp + 1
    /\ pk_from_ls' = DiscardedGradient
    /\ cov' = ShrinkCov(cov, ls_cfg.shrink_factor)
    /\ ls_pc' = "SEARCHING"
    /\ UNCHANGED <<mean_state, obj_func_values, alpha, iteration, success, ls_cfg>>
    /\ UNCHANGED <<genvars, smcvars, biasvars>>

\* a search attempt whose line search returns no step size, no retries left
\* (lines 85-113, 160-163): return False
Failed ==
    /\ ls_pc = "SEARCHING"
    /\ ~RetriesRemain(iter_resamp, ls_cfg.iter_resamp_max)
    /\ \E pk0 \in CurrentGradient(pk_from_ls, mean_state), h \in HessVals :
         LET dir == Direction(pk0.g, ls_cfg.normalize)
         IN  \E o \in LineSearchOutcomes(mean_state, dir) :
               /\ ~o.has_step
               /\ jac_at' = JacAtAfter(pk0, o)
               /\ ls_obs' = Observe(pk0)
    /\ success' = FALSE
    /\ ls_pc' = "FAILED"
    /\ UNCHANGED <<mean_state, cov, obj_func_values, alpha, iteration, pk_from_ls,
                   iter_resamp, ls_cfg>>
    /\ UNCHANGED <<genvars, smcvars, biasvars>>

LSIdle ==
    /\ ls_pc = "INIT"
    /\ mean_state = <<1, 1>>
    /\ cov = [m |-> <<1, 0, 0, 1>>, den |-> 1]
    /\ obj_func_values = 1
    /\ alpha = 0
    /\ iteration = 0
    /\ pk_from_ls = NoGrad
    /\ iter_resamp = 0
    /\ success = FALSE
    /\ ls_cfg = [ iter_resamp_max |-> 0, shrink_factor |-> <<1, 2>>,
                  normalize |-> TRUE ]
    /\ jac_at = <<>>
    /\ ls_obs = <<>>

CalcUpdate == CalcUpdateWithin(MaxCalls)

LSNext == CalcUpdate \/ Accepted \/ ShrinkRetry \/ Failed

\* a longer run of calc_update calls under fewer configurations
HessInit ==
    /\ LSInit
    /\ cov = [m |-> <<1, 1, 1, 1>>, den |-> 1]
    /\ ls_cfg.iter_resamp_max \in {0, 1}
    /\ ls_cfg.shrink_factor = <<1, 2>>
    /\ ls_cfg.normalize

CalcUpdateAgain == CalcUpdateWithin(MaxHessCalls)

HessNext == CalcUpdateAgain \/ Accepted \/ ShrinkRetry \/ Failed

SpecHess == HessInit /\ [][HessNext]_vars

SpecLS == LSInit /\ [][LSNext]_vars

GenNext ==
    \/ GenStateEnsemble /\ UNCHANGED <<lsvars, smcvars, biasvars>>
    \/ UpdateOptimState /\ UNCHANGED <<lsvars, smcvars, biasvars>>

InitGen == GenInit /\ LSIdle /\ SmcIdle /\ BiasIdle

SmcNext ==
    \/ CalcEnsembleWeights /\ UNCHANGED <<lsvars, genvars, biasvars>>
    \/ LevelStep /\ UNCHANGED <<lsvars, genvars, biasvars>>
    \/ LevelRaise /\ UNCHANGED <<lsvars, genvars, biasvars>>
    \/ ReturnWeights /\ UNCHANGED <<lsvars, genvars, biasvars>>

InitSmc == SmcInit /\ LSIdle /\ GenIdle /\ BiasIdle

SpecSmc == InitSmc /\ [][SmcNext]_vars

BiasNext ==
    \/ GradientBias /\ UNCHANGED <<lsvars, genvars, smcvars>>
    \/ CalcEnsembleWeightsBias /\ UNCHANGED <<lsvars, genvars, smcvars>>

InitBias == BiasInit /\ LSIdle /\ GenIdle /\ SmcIdle

SpecBias == InitBias /\ [][BiasNext]_vars

SpecGen == InitGen /\ [][GenNext]_vars

-----------------------------------------------------------------------------
(* LineSearch: properties *)

\* a step of the controller that is one search attempt
IsAttempt == ls_obs'.attempts = ls_obs.attempts + 1

\* C1: a call of calc_update whose line searches all fail ends FAILED, returning
\* False, after exactly iter_resamp_max + 1 search attempts; no call ever makes
\* more attempts, and a running call can always take its next step.
C1_ShrinkRetryBound ==
    /\ ls_obs.attempts <= ls_cfg.iter_resamp_max + 1
    /\ iter_resamp <= ls_cfg.iter_resamp_max
    /\ ls_pc = "SEARCHING" =>
          /\ ls_obs.attempts = iter_resamp
          /\ ENABLED (ShrinkRetry \/ Failed)
    /\ ls_pc = "FAILED" =>
          /\ ls_obs.attempts = ls_cfg.iter_resamp_max + 1
          /\ ls_obs.shrinks = ls_cfg.iter_resamp_max
          /\ success = FALSE

C1_Witness ==
    /\ ls_pc = "FAILED"
    /\ ls_cfg.iter_resamp_max = 2
    /\ ls_obs.attempts = 3

\* C6: the working covariance is symmetric positive-semi-definite in every state
\* reachable by calc_update calls (accepted, shrunk or failed).
C6_CovSymPSD == IsSymPSD(cov)

C6_Witness ==
    /\ ls_pc = "ACCEPTED"
    /\ ls_obs.projected
    /\ ls_obs.shrinks > 0
    /\ ls_obs.calls = 2

RECURSIVE Pow(_, _)
Pow(b, k) == IF k = 0 THEN 1 ELSE b * Pow(b, k - 1)

\* the matrix c times the rational sf, k times
ShrinkPow(c, sf, k) ==
    [m |-> << c.m[1] * Pow(sf[1], k), c.m[2] * Pow(sf[1], k),
              c.m[3] * Pow(sf[1], k), c.m[4] * Pow(sf[1], k) >>,
     den |-> c.den * Pow(sf[2], k)]

\* C7: the attempt that ends a call FAILED changes none of mean state, objective
\* value, alpha, iteration counter, carried-over gradient and covariance; over the
\* whole failed call mean state, objective value, alpha and iteration counter keep
\* their entry values and the covariance is the entry covariance times
\* shrink_factor once per shrink made.
C7_FailedFrame ==
    /\ [][ (ls_pc = "SEARCHING" /\ ls_pc' = "FAILED") =>
              UNCHANGED <<mean_state, obj_func_values, alpha, iteration,
                          pk_from_ls, cov>> ]_vars
    /\ [](ls_pc = "FAILED" =>
              /\ mean_state = ls_obs.entry.mean
              /\ obj_func_values = ls_obs.entry.obj
              /\ alpha = ls_obs.entry.alpha
              /\ iteration = ls_obs.entry.iteration
              /\ CovEq(cov, ShrinkPow(ls_obs.entry.cov, ls_cfg.shrink_factor,
                                      ls_obs.shrinks)))

C7_Witness ==
    /\ ls_pc = "FAILED"
    /\ ls_obs.calls = 2
    /\ iteration = 1
    /\ ls_obs.shrinks = 2
    /\ ls_cfg.shrink_factor = <<1, 2>>
    /\ ~CovEq(cov, ls_obs.entry.cov)
    /\ mean_state # <<1, 1>>

-----------------------------------------------------------------------------
(* _gen_state_ensemble: properties *)

\* variable i of the returned ensemble has the input mean as its empirical mean
MeanKept(i) == SeqSum(state_en[i]) = gen_cfg.ne * gen_cfg.ne * state[i]

\* C2 as claimed: every state variable of the returned ensemble has an empirical
\* mean equal to the input mean.
C2_Original == state_en # <<>> => \A i \in 1..Len(StateKeys) : MeanKept(i)

\* C2 as amended: the recentred ensemble has the input mean exactly before the
\* clip, and the returned ensemble has it for every state variable no element of
\* which the clip changed (always, when no bounds are configured).
C2_MeanBeforeClip ==
    state_en # <<>> =>
      \A i \in 1..Len(StateKeys) :
        /\ SeqSum(gen_obs[i]) = gen_cfg.ne * gen_cfg.ne * state[i]
        /\ state_en[i] = gen_obs[i] => MeanKept(i)
        /\ ~BoundsGiven(gen_cfg) => MeanKept(i)

C2_Witness ==
    /\ state_en # <<>>
    /\ gen_cfg.ne = 3
    /\ BoundsGiven(gen_cfg)
    /\ state_en[2] = gen_obs[2]
    /\ \E j \in 1..3 : state_en[2][j] # 3 * state[2]
    /\ state_en[1] # gen_obs[1]
    /\ ~MeanKept(1)

\* element j of variable i lies in [lo, hi] (the stored value is ne times it)
Within(i, j, lo, hi) ==
    /\ gen_cfg.ne * lo <= state_en[i][j]
    /\ state_en[i][j] <= gen_cfg.ne * hi

\* C3 as claimed: every element lies in [0, 1] in the transformed space, and
\* otherwise in the bounds of its variable; only with bounds absent is nothing
\* clipped.
C3_Original ==
    state_en # <<>> =>
      \A i \in 1..Len(StateKeys) : \A j \in 1..gen_cfg.ne :
        /\ gen_cfg.transform => Within(i, j, 0, 1)
        /\ (~gen_cfg.transform /\ BoundsGiven(gen_cfg)) =>
              Within(i, j, gen_cfg.lb[i], gen_cfg.ub[i])
        /\ ~BoundsGiven(gen_cfg) => state_en[i] = gen_obs[i]

\* C3 as amended: with bounds configured every element lies in [0, 1] in the
\* transformed space and otherwise in the bounds of its variable; with bounds
\* absent nothing is clipped, in the transformed space too.
C3_ClippedToBounds ==
    state_en # <<>> =>
      \A i \in 1..Len(StateKeys) : \A j \in 1..gen_cfg.ne :
        /\ (gen_cfg.transform /\ BoundsGiven(gen_cfg)) => Within(i, j, 0, 1)
        /\ (~gen_cfg.transform /\ BoundsGiven(gen_cfg)) =>
              Within(i, j, gen_cfg.lb[i], gen_cfg.ub[i])
        /\ ~BoundsGiven(gen_cfg) => state_en[i] = gen_obs[i]

C3_Witness ==
    /\ state_en # <<>>
    /\ BoundsGiven(gen_cfg)
    /\ ~gen_cfg.transform
    /\ state_en[1] # gen_obs[1]
    /\ \E j \in 1..gen_cfg.ne : state_en[2][j] = gen_cfg.ne * gen_cfg.ub[2]
    /\ \E j \in 1..gen_cfg.ne : state_en[1][j] = gen_cfg.ne * gen_cfg.ub[1]

-----------------------------------------------------------------------------
(* Properties of calc_ensemble_weights *)

\* the new-sample counts of the levels before level l, added up
NewsBefore(l) == SeqSum(SubSeq(smc_obs.news, 1, l - 1))

\* C4: in calc_ensemble_weights every level except the last gets
\* round(level_size * survival_fraction) new samples, the last level gets the
\* rounding remainder, the counts of all levels add up to
\* round(total_size * survival_fraction), and every level's surviving count is
\* its size minus its new-sample count.
C4_NewSampleCounts ==
    smc_pc \in {"levels", "returned", "raised"} =>
        LET L == NumLevels(smc_cfg)
            n == Len(smc_obs.news)
        IN  /\ Len(smc_obs.survs) = n
            /\ \A l \in 1..n :
                  /\ (l < L \/ L = 1) =>
                        smc_obs.news[l] = RoundTimes(smc_cfg.en_size[l], smc_cfg.sf)
                  /\ (l = L /\ L > 1) =>
                        smc_obs.news[l] =
                            RoundTimes(NumSamples(smc_cfg), smc_cfg.sf) - NewsBefore(l)
                  /\ smc_obs.survs[l] = smc_cfg.en_size[l] - smc_obs.news[l]
            /\ n = L => SeqSum(smc_obs.news) =
                            RoundTimes(NumSamples(smc_cfg), smc_cfg.sf)

\* a call has gone through three levels and the last level's share is not what
\* rounding its own size gives
C4_Witness ==
    /\ smc_pc = "returned"
    /\ NumLevels(smc_cfg) = 3
    /\ Len(smc_obs.news) = 3
    /\ smc_obs.news[3] # RoundTimes(smc_cfg.en_size[3], smc_cfg.sf)
    /\ smc_obs.news[3] > 0

\* C5: for the objective values of the particles of a level and an inflation
\* factor >= 0, the weights calc_ensemble_weights computes are all > 0, add up
\* to 1, are non-increasing in the objective value, and the particle with the
\* smallest objective value has the largest weight.
C5_WeightsDistribution ==
    \A l \in 1..Len(smc_obs.weights) :
        LET w == smc_obs.weights[l]
            n == Len(w.num)
        IN  /\ n = Len(w.vals)
            /\ w.den > 0
            /\ \A i \in 1..n : w.num[i] > 0
            /\ SeqSum(w.num) = w.den
            /\ \A i, j \in 1..n : w.vals[i] <= w.vals[j] => w.num[i] >= w.num[j]
            /\ \A i \in 1..n :
                  w.vals[i] = SeqMin(w.vals) => \A j \in 1..n : w.num[i] >= w.num[j]

\* a level whose particles have different objective values, weighted under a
\* large inflation factor: the worse particle keeps only the added constant
C5_Witness ==
    /\ smc_pc = "levels"
    /\ smc_loc.inflation_factor > 1
    /\ \E l \in 1..Len(smc_obs.weights) :
          LET w == smc_obs.weights[l]
          IN  \E i, j \in 1..Len(w.num) :
                /\ w.vals[i] < w.vals[j]
                /\ w.num[i] > w.num[j]
                /\ w.num[j] = WeightFloor

\* the layout of level l after a later call: survivors gathered by the previous
\* index first, then the level's new members; a new index over the level
SmcLayout(l) ==
    LET surv == smc_obs.survs[l]
        new == smc_obs.news[l]
        prev_idx == smc_obs.prev_index[l].idx
        fresh == [ k \in 1..new |-> smc_obs.state_ens[NewsBefore(l) + k] ]
    IN  /\ surv >= 0
        /\ new >= 0
        /\ Len(particles[l]) = surv + new
        /\ Len(particle_values[l]) = surv + new
        /\ SubSeq(particles[l], 1, surv) = Gather(smc_obs.prev_particles[l], prev_idx)
        /\ SubSeq(particle_values[l], 1, surv) =
               Gather(smc_obs.prev_values[l], prev_idx)
        /\ SubSeq(particles[l], surv + 1, surv + new) = fresh
        /\ SubSeq(particle_values[l], surv + 1, surv + new) =
               [ k \in 1..new |-> ObjOf(fresh[k]) ]
        /\ resample_index[l].some
        /\ Len(resample_index[l].idx) = surv
        /\ \A k \in 1..surv : resample_index[l].idx[k] \in 1..Len(particles[l])

\* C10 as stated: every call of calc_ensemble_weights after the first ends with,
\* for every level, the survivors gathered by the previous resample index in the
\* first ml_ne_surv columns (and values), the level's new members (and their
\* values) in the rest, and a new resample index of length ml_ne_surv over the
\* level's particles.
C10_Original ==
    (smc_obs.calls >= 2 /\ smc_pc \in {"returned", "raised"}) =>
        /\ smc_pc = "returned"
        /\ \A l \in 1..NumLevels(smc_cfg) : SmcLayout(l)

\* C10, for the calls after the first that return: the layout holds for every
\* level.
C10_LayoutWhenReturned ==
    (smc_obs.calls >= 2 /\ smc_pc = "returned") =>
        \A l \in 1..NumLevels(smc_cfg) : SmcLayout(l)

\* a later call has ended in an exception: the level was to take new members
\* from columns the drawn ensemble does not have
C10_Raised ==
    /\ smc_obs.calls >= 2
    /\ smc_pc = "raised"
    /\ smc_obs.news[Len(smc_obs.news)] > 0
    /\ smc_loc.start_index >= Len(smc_loc.state_ens)

-----------------------------------------------------------------------------
(* Properties of the bias correction *)

\* C8: with a bias file configured the bias state is written once. The first
\* call of gradient or calc_ensemble_weights sets bias_factors and bias_points
\* and multiplies state_func_values by the correction; every later call leaves
\* bias_factors, bias_points and state_func_values as they are, the rescaling
\* has happened exactly once, and _bias_correction returns the value of the
\* first call.
C8_BiasWriteOnce ==
    /\ [][ (bias_file /\ bias_factors = <<>>) =>
              /\ bias_factors' # <<>>
              /\ bias_points' # <<>>
              /\ state_func_values' =
                    FracMul(state_func_values, BiasCorrection(bias_factors'))
              /\ bias_obs'.rescales = 1 ]_vars
    /\ [][ (bias_file /\ bias_factors # <<>>) =>
              /\ bias_factors' = bias_factors
              /\ bias_points' = bias_points
              /\ state_func_values' = state_func_values
              /\ bias_obs'.rescales = 1
              /\ BiasCorrection(bias_factors') = BiasCorrection(bias_factors) ]_vars
    /\ [](bias_file =>
            /\ bias_obs.rescales = (IF bias_obs.calls = 0 THEN 0 ELSE 1)
            /\ bias_obs.calls > 0 =>
                  state_func_values = FracMul(bias_obs.sfv0, bias_obs.set_to)
            /\ bias_obs.returned # <<>> => bias_obs.returned = bias_obs.set_to)

\* both operations have been called after the first call, the correction is not
\* 1, and gradient has had the correction returned
C8_Witness ==
    /\ bias_file
    /\ bias_obs.calls = MaxBiasCalls
    /\ bias_obs.ops = {"gradient", "calc_ensemble_weights"}
    /\ bias_obs.set_to # <<1, 1>>
    /\ bias_obs.returned = bias_obs.set_to
    /\ state_func_values # bias_obs.sfv0

-----------------------------------------------------------------------------
(* Properties of calc_ensemble_weights: pairing and counts *)

\* the value held for column i of level l is the objective value of the member
\* held in that column
Paired(l) ==
    /\ Len(particle_values[l]) = Len(particles[l])
    /\ \A i \in 1..Len(particles[l]) : particle_values[l][i] = ObjOf(particles[l][i])

\* the counts of the levels gone through lie between 0 and the level size
CountsInRange ==
    \A l \in 1..Len(smc_obs.news) :
        /\ smc_obs.news[l] \in 0..smc_cfg.en_size[l]
        /\ smc_obs.survs[l] \in 0..smc_cfg.en_size[l]

\* C11 as stated: after every call of calc_ensemble_weights, the first included,
\* and for every level, particle_values[l][i] is the objective value evaluated
\* for the member in column i of particles[l].
C11_Original ==
    smc_pc = "returned" => \A l \in 1..NumLevels(smc_cfg) : Paired(l)

\* C11, for a single level: the pairing holds after every call.
C11_PairedSingleLevel ==
    (smc_pc = "returned" /\ NumLevels(smc_cfg) = 1) => Paired(1)

\* the first call of a multilevel run has returned, all counts lie in range, and
\* a level holds a member next to the value of another member
C11_Mispaired ==
    /\ smc_pc = "returned"
    /\ smc_obs.calls = 1
    /\ CountsInRange
    /\ \E l \in 2..NumLevels(smc_cfg) : ~Paired(l)

\* C13 as stated: in calc_ensemble_weights, for every level, the last one with
\* the rounding remainder included, the new-sample count and the surviving count
\* lie between 0 and the level size.
C13_Original ==
    smc_pc \in {"levels", "returned", "raised"} => CountsInRange

\* C13, for a single level: both counts lie between 0 and the level size.
C13_InRangeSingleLevel ==
    (smc_pc \in {"levels", "returned", "raised"} /\ NumLevels(smc_cfg) = 1) =>
        CountsInRange

\* the first call has returned with a negative new-sample count on the last
\* level, whose surviving count exceeds its size
C13_OutOfRange ==
    /\ smc_pc = "returned"
    /\ smc_obs.calls = 1
    /\ LET L == NumLevels(smc_cfg)
       IN  /\ smc_obs.news[L] < 0
           /\ smc_obs.survs[L] > smc_cfg.en_size[L]
           /\ Len(resample_index[L].idx) > Len(particles[L])

-----------------------------------------------------------------------------
(* Properties of calc_update: the ensemble the Hessian is estimated from *)

\* C12 as stated: across any sequence of calc_update calls, a call after a FAILED
\* call included, every attempt evaluates the Hessian when the last call of
\* self.jac is the one that gave the attempt's pk and was made at the current mean
\* state (an accepted line search returning the gradient of its last evaluation
\* at the accepted point).
C12_Original ==
    ls_obs.attempts > 0 => ls_obs.hess_current

\* C12, for the attempts that do not reuse a gradient across a FAILED call: the
\* last call of self.jac gave pk and was made at the current mean state.
C12_CurrentUnlessAfterFailed ==
    (ls_obs.attempts > 0 /\ ~ls_obs.hess_current) =>
        /\ ls_obs.prev = "failed"
        /\ ls_obs.attempts = 1
        /\ ~ls_obs.fresh

\* the first attempt of a call made after a FAILED call has reused the gradient
\* of an earlier accepted step and evaluated the Hessian after the failed line
\* search had called self.jac away from the mean state
C12_StaleEnsemble ==
    /\ ls_obs.calls = 3
    /\ ls_obs.prev = "failed"
    /\ ls_obs.attempts = 1
    /\ ~ls_obs.fresh
    /\ ~ls_obs.hess_current

====
